---- MODULE Spec2Model ----
(***************************************************************************)
(* Model of src/src/main.rs: the shared AppState behind Arc<Mutex<..>>,    *)
(* the six request handlers that lock it, and the pure helpers top_two,    *)
(* ordered_tuple, idx_to_reaction, make_answers and build_situations.      *)
(*                                                                         *)
(* Every handler is a task p that, once called, waits for the mutex,       *)
(* executes the statements of its body one at a time while holding it and  *)
(* releases it when it returns (the guard `st` is dropped at the end of    *)
(* the function).  The variables accepted, committed, since_show and       *)
(* shown_since_clear are history variables: no statement of the program    *)
(* reads them; they record what the properties below speak about.          *)
(***************************************************************************)
EXTENDS Integers, Sequences, FiniteSets, TLC

\* ------------------------------------------------------------------ bounds
\* number of handler tasks that may run concurrently
NumProcs == 2
\* accepted votes per round (between two clears)
MaxVotes == 2
\* reveals over the run
MaxShows == 2
\* largest counter value drawn for the resolver's inputs (SpecResolve)
MaxCount == 5
\* smaller caps on votes, reveals and advances for SpecFair and SpecVersions
MaxFairVotes == 1
MaxFairShows == 1
MaxAdvances == 1

Procs == 1..NumProcs

\* ------------------------------------------------------- Option<T>, ack
None == <<>>
Some(x) == <<x>>
Unwrap(o) == o[1]

\* ClickResponse { ok: true }
Ack == [ok |-> TRUE]

\* ---------------------------------------------------------- enum Reaction
Reactions == {"Lie", "Delay", "Freeze"}

\* `r as u8`: the discriminant, in declaration order
as_u8(r) == CASE r = "Lie" -> 0 [] r = "Delay" -> 1 [] r = "Freeze" -> 2

\* the request strings the clients send, and two that are not recognized
Tokens == {"lie", "delay", "freeze", "xyz", "Lie"}

from_str_lower(s) ==
    CASE s = "lie" \/ s = "Lie" -> Some("Lie")
      [] s = "delay" -> Some("Delay")
      [] s = "freeze" -> Some("Freeze")
      [] OTHER -> None

from_str(s) ==
    CASE s = "lie" -> Some("Lie")
      [] s = "delay" -> Some("Delay")
      [] s = "freeze" -> Some("Freeze")
      [] OTHER -> None

idx_to_reaction(i) ==
    CASE i = 0 -> "Lie"
      [] i = 1 -> "Delay"
      [] OTHER -> "Freeze"

ordered_tuple(a, b) == IF as_u8(a) <= as_u8(b) THEN <<a, b>> ELSE <<b, a>>

\* ------------------------------------------------------------- top_two
\* pairs.sort_by(|a, b| b.0.cmp(&a.0)) is a stable sort: an element moves in
\* front of another only when the comparator says Less, i.e. when its count
\* is strictly greater.  Insertion from the left realises exactly that order.
RECURSIVE InsertDesc(_, _)
InsertDesc(sorted, e) ==
    IF sorted = <<>> THEN <<e>>
    ELSE IF Head(sorted)[1] >= e[1]
         THEN <<Head(sorted)>> \o InsertDesc(Tail(sorted), e)
         ELSE <<e>> \o sorted

RECURSIVE InsertDescUnstable(_, _)
InsertDescUnstable(sorted, e) ==
    IF sorted = <<>> THEN <<e>>
    ELSE IF Head(sorted)[1] > e[1]
         THEN <<Head(sorted)>> \o InsertDescUnstable(Tail(sorted), e)
         ELSE <<e>> \o sorted

RECURSIVE sort_by_desc(_)
sort_by_desc(pairs) ==
    IF pairs = <<>> THEN <<>>
    ELSE InsertDesc(sort_by_desc(SubSeq(pairs, 1, Len(pairs) - 1)), pairs[Len(pairs)])

RECURSIVE sort_by_desc_unstable(_)
sort_by_desc_unstable(pairs) ==
    IF pairs = <<>> THEN <<>>
    ELSE InsertDescUnstable(sort_by_desc_unstable(SubSeq(pairs, 1, Len(pairs) - 1)),
                            pairs[Len(pairs)])

top_two_unstable(c) ==
    LET pairs == sort_by_desc_unstable(<< <<c[0], 0>>, <<c[1], 1>>, <<c[2], 2>> >>)
    IN  <<idx_to_reaction(pairs[1][2]), idx_to_reaction(pairs[2][2])>>

top_two(c) ==
    LET pairs == sort_by_desc(<< <<c[0], 0>>, <<c[1], 1>>, <<c[2], 2>> >>)
    IN  <<idx_to_reaction(pairs[1][2]), idx_to_reaction(pairs[2][2])>>

\* ------------------------------------------------------------- catalog
\* build_situations pushes this many situations
NumSituations == 15

\* the fallback of unwrap_or_else in admin_show
NotFound == "answer not found for this combination"

\* a map whose second key is written in the order (Freeze, Lie)
make_answers_unordered(lie_delay, lie_freeze, delay_freeze) ==
    (<<"Lie", "Delay">> :> lie_delay)
    @@ (<<"Freeze", "Lie">> :> lie_freeze)
    @@ (<<"Delay", "Freeze">> :> delay_freeze)

\* HashMap<(Reaction, Reaction), String> with its three inserts
make_answers(lie_delay, lie_freeze, delay_freeze) ==
    (ordered_tuple("Lie", "Delay") :> lie_delay)
    @@ (ordered_tuple("Lie", "Freeze") :> lie_freeze)
    @@ (ordered_tuple("Delay", "Freeze") :> delay_freeze)

\* The authored texts are opaque to the program: the i-th situation's title,
\* description and three answers are named by i and by the argument position.
build_situations ==
    [i \in 0..(NumSituations - 1) |->
        [title |-> <<"title", i>>,
         description |-> <<"description", i>>,
         answers |-> make_answers(<<"answer", i, "lie_delay">>,
                                  <<"answer", i, "lie_freeze">>,
                                  <<"answer", i, "delay_freeze">>)]]

\* a lookup that falls back to the empty string
get_or_default(answers, key) ==
    IF key \in DOMAIN answers THEN answers[key] ELSE ""

\* situation.answers.get(&key).cloned().unwrap_or_else(|| ...)
get_or_not_found(answers, key) ==
    IF key \in DOMAIN answers THEN answers[key] ELSE NotFound

Zero == [i \in 0..2 |-> 0]


\* ---------------------------------------------------------------- state
VARIABLES
    situations,         \* AppState.situations: set once in main, never assigned again
    current_index,      \* AppState.current_index
    counts,             \* AppState.counts, [lie, delay, freeze]
    last_result,        \* AppState.last_result: Option<ShownResult>
    result_version,     \* AppState.result_version
    mutex,              \* the Mutex of Shared: 0 when free, else the task holding it
    pc,                 \* where each task is in its handler
    req,                \* the request each task is serving
    loc,                \* the locals admin_show binds before it mutates the state
    response,           \* the response a return has just sent (gone at the next step)
    accepted,           \* history: recognized votes since the last clear, per strategy
    committed,          \* history: the AppState as the last whole operation left it
    versions,           \* history, kept in SpecVersions only: results returned so far
    shows_completed,    \* history: the number of admin_show calls that have returned
    since_show,         \* history: the last reveal's result while no vote or clear followed it
    shown_since_clear   \* history: the last reveal's result since the last clear began

app == <<current_index, counts, last_result, result_version>>
hist == <<accepted, committed, since_show, shown_since_clear>>
vars == <<situations, current_index, counts, last_result, result_version, mutex, pc, req, loc,
          response, accepted, committed, since_show, shown_since_clear, versions, shows_completed>>

\* st.situations.len()
situations_len == Cardinality(DOMAIN situations)

Ops == {"current", "click", "show", "result", "next", "reset"}

NoReq == [op |-> "none", reaction |-> "", overtaken |-> 0]

\* the fields of AppState that change, as one value
AppValue(ci, c, lr, rv) ==
    [current_index |-> ci, counts |-> c, last_result |-> lr, result_version |-> rv]

Sum(c) == c[0] + c[1] + c[2]

Pending(op) == {q \in Procs : req[q].op = op}

\* the index a recognized request string stands for, as the clients use it
TokenIndex(t) == CASE t = "lie" -> 0 [] t = "delay" -> 1 [] t = "freeze" -> 2 [] OTHER -> 3

\* a start with the version counter already at one
Init_version_one ==
    /\ situations = build_situations
    /\ current_index = 0
    /\ counts = Zero
    /\ last_result = None
    /\ result_version = 1
    /\ mutex = 0
    /\ pc = [p \in Procs |-> "idle"]
    /\ req = [p \in Procs |-> NoReq]
    /\ loc = [p \in Procs |-> None]
    /\ response = None
    /\ accepted = Zero
    /\ committed = AppValue(0, Zero, None, 1)
    /\ since_show = None
    /\ shown_since_clear = None
    /\ versions = None
    /\ shows_completed = 0

\* main: the AppState passed to with_state; no task has been called
Init ==
    /\ situations = build_situations
    /\ current_index = 0
    /\ counts = Zero
    /\ last_result = None
    /\ result_version = 0
    /\ mutex = 0
    /\ pc = [p \in Procs |-> "idle"]
    /\ req = [p \in Procs |-> NoReq]
    /\ loc = [p \in Procs |-> None]
    /\ response = None
    /\ accepted = Zero
    /\ committed = AppValue(0, Zero, None, 0)
    /\ since_show = None
    /\ shown_since_clear = None
    /\ versions = None
    /\ shows_completed = 0

\* ------------------------------------------------------- Router dispatch
\* A request arrives and its handler is called on task p.  The number of
\* votes per round and of reveals per run is capped to keep the model finite.
RequestOp(p, op, t) ==
    /\ pc[p] = "idle"
    /\ op = "click" => Sum(counts) + Cardinality(Pending("click")) < MaxVotes
    /\ op # "click" => t = "lie"
    /\ op = "show" => result_version + Cardinality(Pending("show")) < MaxShows
    /\ req' = [req EXCEPT ![p] =
                  [op |-> op, reaction |-> IF op = "click" THEN t ELSE "",
                   overtaken |-> 0]]
    /\ pc' = [pc EXCEPT ![p] = "lock"]
    /\ UNCHANGED <<app, mutex, loc, hist>>
    /\ response' = None
    /\ UNCHANGED <<situations, versions, shows_completed>>

Request(p) == \E op \in Ops, t \in Tokens : RequestOp(p, op, t)

FirstStatement(op) ==
    CASE op = "current" -> "current_read"
      [] op = "click" -> "click_body"
      [] op = "show" -> "show_read"
      [] op = "result" -> "result_read"
      [] op = "next" -> "next_index"
      [] op = "reset" -> "reset_counts"

\* a lock that does not exclude: it is handed out while another task holds it
Lock_no_exclusion(p) ==
    /\ pc[p] = "lock"
    /\ mutex' = p
    /\ pc' = [pc EXCEPT ![p] = FirstStatement(req[p].op)]
    /\ UNCHANGED <<app, req, loc, hist>>
    /\ response' = None
    /\ UNCHANGED <<situations, versions, shows_completed>>

\* let st = state.lock().unwrap(): blocks until the mutex is free.  The unwrap
\* fails only on a poisoned mutex, i.e. after a handler panicked while holding
\* it; no handler does: current_index stays below situations.len(), the catalog
\* is not empty, and the u64 counters stay far below 2^64 within MaxVotes and
\* MaxShows.
Lock(p) ==
    /\ pc[p] = "lock"
    /\ mutex = 0
    /\ mutex' = p
    /\ pc' = [pc EXCEPT ![p] = FirstStatement(req[p].op)]
    /\ UNCHANGED <<app, req, loc, hist>>
    /\ response' = None
    /\ UNCHANGED <<situations, versions, shows_completed>>

\* The history of returned results: for each version the first result that
\* a reveal or a poll returned with it, and the version of the result the
\* latest poll returned.  v = None: no history is kept.
Note(v, op, body) ==
    IF v = None \/ op \notin {"show", "result"} \/ (op = "result" /\ body = None) THEN v
    ELSE LET r == IF op = "show" THEN body ELSE Unwrap(body)
             h == Unwrap(v)
         IN  Some([issued |-> [h.issued EXCEPT ![r.version] =
                                  IF @ = None THEN Some(r) ELSE @],
                   polled |-> IF op = "result" THEN r.version ELSE h.polled])

\* a return that leaks the guard: the mutex stays with the task that returned
ReturnReq_keep_lock(p, body, r) ==
    /\ pc' = [pc EXCEPT ![p] = "idle"]
    /\ mutex' = mutex
    /\ loc' = [loc EXCEPT ![p] = None]
    /\ req' = [r EXCEPT ![p] = NoReq]
    /\ response' = Some([proc |-> p, op |-> req[p].op, reaction |-> req[p].reaction,
                         overtaken |-> req[p].overtaken, body |-> body])
    /\ committed' = AppValue(current_index', counts', last_result', result_version')
    /\ versions' = Note(versions, req[p].op, body)
    /\ shows_completed' = IF req[p].op = "show" THEN shows_completed + 1
                          ELSE shows_completed
    /\ UNCHANGED situations

\* The handler returns Json(body): the guard is dropped, the response is sent
\* and the task is free for the next request.  Used as the last conjunct of a
\* handler's final statement; r is req with the history of the step applied.
ReturnReq(p, body, r) ==
    /\ pc' = [pc EXCEPT ![p] = "idle"]
    /\ mutex' = 0
    /\ loc' = [loc EXCEPT ![p] = None]
    /\ req' = [r EXCEPT ![p] = NoReq]
    /\ response' = Some([proc |-> p, op |-> req[p].op, reaction |-> req[p].reaction,
                         overtaken |-> req[p].overtaken, body |-> body])
    /\ committed' = AppValue(current_index', counts', last_result', result_version')
    /\ versions' = Note(versions, req[p].op, body)
    /\ shows_completed' = IF req[p].op = "show" THEN shows_completed + 1
                          ELSE shows_completed
    /\ UNCHANGED situations

Return(p, body) == ReturnReq(p, body, req)

\* ------------------------------------------------ get_current_situation
current_read(p) ==
    /\ pc[p] = "current_read"
    /\ UNCHANGED <<app, accepted, since_show, shown_since_clear>>
    /\ LET s == situations[current_index]
       IN  Return(p, [title |-> s.title, description |-> s.description])

\* ------------------------------------------------------------ post_click
\* a handler that counts a delay vote as freeze and a freeze vote as delay
click_body_swapped(p) ==
    /\ pc[p] = "click_body"
    /\ LET r == from_str(req[p].reaction)
       IN  counts' = IF r # None
                     THEN CASE Unwrap(r) = "Lie" -> [counts EXCEPT ![0] = @ + 1]
                            [] Unwrap(r) = "Delay" -> [counts EXCEPT ![2] = @ + 1]
                            [] Unwrap(r) = "Freeze" -> [counts EXCEPT ![1] = @ + 1]
                     ELSE counts
    /\ LET i == TokenIndex(req[p].reaction)
       IN  accepted' = IF i \in 0..2 THEN [accepted EXCEPT ![i] = @ + 1] ELSE accepted
    /\ since_show' = None
    /\ UNCHANGED <<current_index, last_result, result_version, shown_since_clear>>
    /\ Return(p, Ack)

\* a handler that records that a strategy was voted for, not how often
click_body_dedup(p) ==
    /\ pc[p] = "click_body"
    /\ LET r == from_str(req[p].reaction)
       IN  counts' = IF r # None
                     THEN CASE Unwrap(r) = "Lie" -> [counts EXCEPT ![0] = 1]
                            [] Unwrap(r) = "Delay" -> [counts EXCEPT ![1] = 1]
                            [] Unwrap(r) = "Freeze" -> [counts EXCEPT ![2] = 1]
                     ELSE counts
    /\ LET i == TokenIndex(req[p].reaction)
       IN  accepted' = IF i \in 0..2 THEN [accepted EXCEPT ![i] = @ + 1] ELSE accepted
    /\ since_show' = None
    /\ UNCHANGED <<current_index, last_result, result_version, shown_since_clear>>
    /\ Return(p, Ack)

click_body(p) ==
    /\ pc[p] = "click_body"
    /\ LET r == from_str(req[p].reaction)
       IN  counts' = IF r # None
                     THEN CASE Unwrap(r) = "Lie" -> [counts EXCEPT ![0] = @ + 1]
                            [] Unwrap(r) = "Delay" -> [counts EXCEPT ![1] = @ + 1]
                            [] Unwrap(r) = "Freeze" -> [counts EXCEPT ![2] = @ + 1]
                     ELSE counts
    /\ LET i == TokenIndex(req[p].reaction)
       IN  accepted' = IF i \in 0..2 THEN [accepted EXCEPT ![i] = @ + 1] ELSE accepted
    /\ since_show' = None
    /\ UNCHANGED <<current_index, last_result, result_version, shown_since_clear>>
    /\ Return(p, Ack)

\* a reveal that labels the result with the title of the first situation
show_read_first_title(p) ==
    /\ pc[p] = "show_read"
    /\ LET situation == situations[current_index]
           rr == top_two(counts)
           key == ordered_tuple(rr[1], rr[2])
       IN  loc' = [loc EXCEPT ![p] =
                      Some([situation_title |-> situations[0].title,
                            answer |-> get_or_not_found(situation.answers, key),
                            counts |-> counts])]
    /\ pc' = [pc EXCEPT ![p] = "show_bump"]
    /\ UNCHANGED <<app, mutex, req, hist>>
    /\ response' = None
    /\ UNCHANGED <<situations, versions, shows_completed>>

\* ------------------------------------------------------------ admin_show
\* lines 149-158: everything that is read before the state is mutated
show_read(p) ==
    /\ pc[p] = "show_read"
    /\ LET situation == situations[current_index]
           rr == top_two(counts)
           key == ordered_tuple(rr[1], rr[2])
       IN  loc' = [loc EXCEPT ![p] =
                      Some([situation_title |-> situation.title,
                            answer |-> get_or_not_found(situation.answers, key),
                            counts |-> counts])]
    /\ pc' = [pc EXCEPT ![p] = "show_bump"]
    /\ UNCHANGED <<app, mutex, req, hist>>
    /\ response' = None
    /\ UNCHANGED <<situations, versions, shows_completed>>

\* a reveal that leaves the version as it is
show_bump_skip(p) ==
    /\ pc[p] = "show_bump"
    /\ pc' = [pc EXCEPT ![p] = "show_store"]
    /\ UNCHANGED <<app, mutex, req, loc, hist>>
    /\ response' = None
    /\ UNCHANGED <<situations, versions, shows_completed>>

\* line 161: st.result_version += 1
show_bump(p) ==
    /\ pc[p] = "show_bump"
    /\ result_version' = result_version + 1
    /\ pc' = [pc EXCEPT ![p] = "show_store"]
    /\ UNCHANGED <<current_index, counts, last_result, mutex, req, loc, hist>>
    /\ response' = None
    /\ UNCHANGED <<situations, versions, shows_completed>>

\* a reveal that also starts a new tally
show_store_clears_tally(p) ==
    /\ pc[p] = "show_store"
    /\ LET l == Unwrap(loc[p])
           shown == [situation_title |-> l.situation_title,
                     answer |-> l.answer,
                     counts |-> l.counts,
                     version |-> result_version]
       IN  /\ last_result' = Some(shown)
           /\ since_show' = Some(shown)
           /\ shown_since_clear' = Some(shown)
           /\ counts' = Zero
           /\ UNCHANGED <<current_index, result_version, accepted>>
           /\ ReturnReq(p, shown,
                        [q \in Procs |->
                            IF q # p /\ req[q].op = "show"
                            THEN [req[q] EXCEPT !.overtaken = shown.version]
                            ELSE req[q]])

\* a reveal that stamps the result with the version as it was before the bump
show_store_stale_version(p) ==
    /\ pc[p] = "show_store"
    /\ LET l == Unwrap(loc[p])
           shown == [situation_title |-> l.situation_title,
                     answer |-> l.answer,
                     counts |-> l.counts,
                     version |-> result_version - 1]
       IN  /\ last_result' = Some(shown)
           /\ since_show' = Some(shown)
           /\ shown_since_clear' = Some(shown)
           /\ UNCHANGED <<current_index, counts, result_version, accepted>>
           /\ ReturnReq(p, shown,
                        [q \in Procs |->
                            IF q # p /\ req[q].op = "show"
                            THEN [req[q] EXCEPT !.overtaken = shown.version]
                            ELSE req[q]])

\* lines 162-170: build the ShownResult, store a clone, return it
show_store(p) ==
    /\ pc[p] = "show_store"
    /\ LET l == Unwrap(loc[p])
           shown == [situation_title |-> l.situation_title,
                     answer |-> l.answer,
                     counts |-> l.counts,
                     version |-> result_version]
       IN  /\ last_result' = Some(shown)
           /\ since_show' = Some(shown)
           /\ shown_since_clear' = Some(shown)
           /\ UNCHANGED <<current_index, counts, result_version, accepted>>
           /\ ReturnReq(p, shown,
                        [q \in Procs |->
                            IF q # p /\ req[q].op = "show"
                            THEN [req[q] EXCEPT !.overtaken = shown.version]
                            ELSE req[q]])

\* a poll that takes the result out of the state instead of cloning it
result_read_take(p) ==
    /\ pc[p] = "result_read"
    /\ last_result' = None
    /\ UNCHANGED <<current_index, counts, result_version, accepted, since_show,
                   shown_since_clear>>
    /\ Return(p, last_result)

\* a poll that rebuilds the result from the live tally instead of cloning
\* the stored one
result_read_live(p) ==
    /\ pc[p] = "result_read"
    /\ UNCHANGED <<current_index, counts, last_result, result_version, accepted,
                   since_show, shown_since_clear>>
    /\ Return(p, IF last_result = None THEN None
                 ELSE Some([Unwrap(last_result) EXCEPT !.counts = counts]))

\* ------------------------------------------------ get_result_for_players
result_read(p) ==
    /\ pc[p] = "result_read"
    /\ UNCHANGED <<app, accepted, since_show, shown_since_clear>>
    /\ Return(p, last_result)

\* ------------------------------------------------------------ admin_next
\* an advance that stops at the last situation
next_index_saturating(p) ==
    /\ pc[p] = "next_index"
    /\ current_index' = IF current_index + 1 < NumSituations
                        THEN current_index + 1 ELSE current_index
    /\ since_show' = None
    /\ shown_since_clear' = None
    /\ pc' = [pc EXCEPT ![p] = "next_counts"]
    /\ UNCHANGED <<counts, last_result, result_version, mutex, req, loc,
                   accepted, committed>>
    /\ response' = None
    /\ UNCHANGED <<situations, versions, shows_completed>>

\* an advance that steps past the last situation without wrapping
next_index_no_wrap(p) ==
    /\ pc[p] = "next_index"
    /\ current_index' = current_index + 1
    /\ since_show' = None
    /\ shown_since_clear' = None
    /\ pc' = [pc EXCEPT ![p] = "next_counts"]
    /\ UNCHANGED <<counts, last_result, result_version, mutex, req, loc,
                   accepted, committed>>
    /\ response' = None
    /\ UNCHANGED <<situations, versions, shows_completed>>

\* line 182
next_index(p) ==
    /\ pc[p] = "next_index"
    /\ current_index' = (current_index + 1) % situations_len
    /\ since_show' = None
    /\ shown_since_clear' = None
    /\ pc' = [pc EXCEPT ![p] = "next_counts"]
    /\ UNCHANGED <<counts, last_result, result_version, mutex, req, loc,
                   accepted, committed>>
    /\ response' = None
    /\ UNCHANGED <<situations, versions, shows_completed>>

\* line 183
next_counts(p) ==
    /\ pc[p] = "next_counts"
    /\ counts' = Zero
    /\ accepted' = Zero
    /\ pc' = [pc EXCEPT ![p] = "next_result"]
    /\ UNCHANGED <<current_index, last_result, result_version, mutex, req, loc,
                   committed, since_show, shown_since_clear>>
    /\ response' = None
    /\ UNCHANGED <<situations, versions, shows_completed>>

\* an advance that leaves the last result in place
next_result_keep(p) ==
    /\ pc[p] = "next_result"
    /\ UNCHANGED <<current_index, counts, last_result, result_version, accepted,
                   since_show, shown_since_clear>>
    /\ Return(p, Ack)

\* an advance that also starts the version counter again
next_result_zero_version(p) ==
    /\ pc[p] = "next_result"
    /\ last_result' = None
    /\ result_version' = 0
    /\ UNCHANGED <<current_index, counts, accepted, since_show, shown_since_clear>>
    /\ Return(p, Ack)

\* lines 184-185
next_result(p) ==
    /\ pc[p] = "next_result"
    /\ last_result' = None
    /\ UNCHANGED <<current_index, counts, result_version, accepted, since_show,
                   shown_since_clear>>
    /\ Return(p, Ack)

\* ----------------------------------------------------------- admin_reset
\* a reset that leaves the tally as it is
reset_counts_keep(p) ==
    /\ pc[p] = "reset_counts"
    /\ accepted' = Zero
    /\ since_show' = None
    /\ shown_since_clear' = None
    /\ pc' = [pc EXCEPT ![p] = "reset_result"]
    /\ UNCHANGED <<current_index, counts, last_result, result_version, mutex, req, loc,
                   committed>>
    /\ response' = None
    /\ UNCHANGED <<situations, versions, shows_completed>>

\* line 191
reset_counts(p) ==
    /\ pc[p] = "reset_counts"
    /\ counts' = Zero
    /\ accepted' = Zero
    /\ since_show' = None
    /\ shown_since_clear' = None
    /\ pc' = [pc EXCEPT ![p] = "reset_result"]
    /\ UNCHANGED <<current_index, last_result, result_version, mutex, req, loc,
                   committed>>
    /\ response' = None
    /\ UNCHANGED <<situations, versions, shows_completed>>

\* a reset that also restarts the version counter
reset_result_zero_version(p) ==
    /\ pc[p] = "reset_result"
    /\ last_result' = None
    /\ result_version' = 0
    /\ UNCHANGED <<current_index, counts, accepted, since_show, shown_since_clear>>
    /\ Return(p, Ack)

\* a reset that leaves the revealed result in place
reset_result_keep(p) ==
    /\ pc[p] = "reset_result"
    /\ UNCHANGED <<current_index, counts, last_result, result_version, accepted,
                   since_show, shown_since_clear>>
    /\ Return(p, Ack)

\* lines 192-193
reset_result(p) ==
    /\ pc[p] = "reset_result"
    /\ last_result' = None
    /\ UNCHANGED <<current_index, counts, result_version, accepted, since_show,
                   shown_since_clear>>
    /\ Return(p, Ack)

\* ------------------------------------------------------------------ spec
Next ==
    \E p \in Procs :
        \/ Request(p)
        \/ Lock(p)
        \/ current_read(p)
        \/ click_body(p)
        \/ show_read(p)
        \/ show_bump(p)
        \/ show_store(p)
        \/ result_read(p)
        \/ next_index(p)
        \/ next_counts(p)
        \/ next_result(p)
        \/ reset_counts(p)
        \/ reset_result(p)

Spec == Init /\ [][Next]_vars

\* ------------------------------------------------------- fair scheduling
\* the statements of the handler running on task p, after the lock is taken
Run(p) ==
    \/ current_read(p)
    \/ click_body(p)
    \/ show_read(p)
    \/ show_bump(p)
    \/ show_store(p)
    \/ result_read(p)
    \/ next_index(p)
    \/ next_counts(p)
    \/ next_result(p)
    \/ reset_counts(p)
    \/ reset_result(p)

\* A handler holding the guard never awaits, so its task runs to the return:
\* weak fairness on its statements.  A task blocked in lock() is woken when
\* the mutex is released but may lose the race to a later arrival; a fair
\* scheduler lets it win eventually: strong fairness on Lock.  Requests are
\* the environment's choice and carry no fairness.
Fairness == \A p \in Procs : WF_vars(Run(p)) /\ SF_vars(Lock(p))

\* As Request, with smaller caps and the number of advances capped as well:
\* the locking does not depend on the values the session holds.
RequestFair(p) ==
    \E op \in Ops, t \in Tokens :
        /\ op = "click" => Sum(counts) + Cardinality(Pending("click")) < MaxFairVotes
        /\ op = "show" => result_version + Cardinality(Pending("show")) < MaxFairShows
        /\ op = "next" => current_index + Cardinality(Pending("next")) < MaxAdvances
        /\ RequestOp(p, op, t)

NextFair == \E p \in Procs : RequestFair(p) \/ Lock(p) \/ Run(p)

SpecFair == Init /\ [][NextFair]_vars /\ Fairness

\* ------------------------------------------- the history of returned results
\* The program from its start, with the history of returned results kept,
\* the number of advances capped and one vote per round: the catalog's length
\* and the size of the tally play no part in the versions.
InitVersions ==
    /\ situations = build_situations
    /\ current_index = 0
    /\ counts = Zero
    /\ last_result = None
    /\ result_version = 0
    /\ mutex = 0
    /\ pc = [p \in Procs |-> "idle"]
    /\ req = [p \in Procs |-> NoReq]
    /\ loc = [p \in Procs |-> None]
    /\ response = None
    /\ accepted = Zero
    /\ committed = AppValue(0, Zero, None, 0)
    /\ since_show = None
    /\ shown_since_clear = None
    /\ versions = Some([issued |-> [n \in 0..MaxShows |-> None], polled |-> 0])
    /\ shows_completed = 0

RequestVersions(p) ==
    \E op \in Ops, t \in Tokens :
        /\ op = "click" => Sum(counts) + Cardinality(Pending("click")) < MaxFairVotes
        /\ op = "next" => current_index + Cardinality(Pending("next")) < MaxAdvances
        /\ RequestOp(p, op, t)

NextVersions == \E p \in Procs : RequestVersions(p) \/ Lock(p) \/ Run(p)

SpecVersions == InitVersions /\ [][NextVersions]_vars

\* ----------------------------------------------- the resolver on its own
\* top_two, ordered_tuple and the lookup are pure: here admin_show runs on
\* every tally up to MaxCount and every situation of the catalog.
InitResolve ==
    /\ situations = build_situations
    /\ current_index \in 0..(NumSituations - 1)
    /\ counts \in [0..2 -> 0..MaxCount]
    /\ last_result = None
    /\ result_version = 0
    /\ mutex = 0
    /\ pc = [p \in Procs |-> "idle"]
    /\ req = [p \in Procs |-> NoReq]
    /\ loc = [p \in Procs |-> None]
    /\ response = None
    /\ accepted = counts
    /\ committed = AppValue(current_index, counts, None, 0)
    /\ since_show = None
    /\ shown_since_clear = None
    /\ versions = None
    /\ shows_completed = 0

RequestShow(p) == Request(p) /\ req'[p].op = "show"

NextResolve ==
    \/ RequestShow(1)
    \/ Lock(1)
    \/ show_read(1)
    \/ show_bump(1)
    \/ show_store(1)

SpecResolve == InitResolve /\ [][NextResolve]_vars


\* ------------------------------------------- the lookup's fallback on its own
\* The HashMap lookup of admin_show is pure in the map and the key.  Here the
\* current situation's map holds any subset of the three keys (the built
\* catalog always holds all three), for every small tally.
Restrict(f, S) == [k \in (DOMAIN f) \cap S |-> f[k]]

InitFallback ==
    /\ current_index \in 0..(NumSituations - 1)
    /\ \E S \in SUBSET (DOMAIN build_situations[0].answers) :
          situations = [build_situations EXCEPT ![current_index].answers = Restrict(@, S)]
    /\ counts \in [0..2 -> 0..MaxVotes]
    /\ last_result = None
    /\ result_version = 0
    /\ mutex = 0
    /\ pc = [p \in Procs |-> "idle"]
    /\ req = [p \in Procs |-> NoReq]
    /\ loc = [p \in Procs |-> None]
    /\ response = None
    /\ accepted = counts
    /\ committed = AppValue(current_index, counts, None, 0)
    /\ since_show = None
    /\ shown_since_clear = None
    /\ versions = None
    /\ shows_completed = 0

SpecFallback == InitFallback /\ [][NextResolve]_vars

\* ================================================================ claims
\* Steps of the handlers, as the formulas below see them.

\* task p returns from the handler of op in this step
Returns(p, op) == req[p].op = op /\ pc[p] \notin {"idle", "lock"} /\ pc'[p] = "idle"

\* task p executes a statement of the handler of op in this step
Executes(p, op) == req[p].op = op /\ pc[p] \notin {"idle", "lock"} /\ pc'[p] # pc[p]

\* the body of the response sent in this step
Sent == Unwrap(response').body

\* ---- the ranking the specification describes, stated without sorting:
\* strategy i is ahead of j when it has more votes, or as many and a lower priority
Ahead(c, i, j) == c[i] > c[j] \/ (c[i] = c[j] /\ i < j)

\* the two strategies with fewer than two strategies ahead of them
TopPair(c) == {i \in 0..2 : Cardinality({j \in 0..2 : Ahead(c, j, i)}) < 2}

\* the text authored for situation s and an unordered pair of priorities
Authored(s, pair) ==
    CASE pair = {0, 1} -> <<"answer", s, "lie_delay">>
      [] pair = {0, 2} -> <<"answer", s, "lie_freeze">>
      [] pair = {1, 2} -> <<"answer", s, "delay_freeze">>

Tally(a, b, c) == (0 :> a) @@ (1 :> b) @@ (2 :> c)

\* C1: for every tally and every current situation, reveal returns (and stores)
\* the current situation's answer for the unordered pair of the two top-ranked
\* strategies, ranked by count descending and, among equal counts, by ascending
\* priority; [0,0,0] resolves to {Lie, Delay}, [2,2,5] to {Freeze, Lie} and
\* [5,3,1] to {Lie, Delay}.
C1_RevealAnswersTopTwo ==
    /\ last_result # None =>
          /\ Unwrap(last_result).answer = Authored(current_index, TopPair(counts))
          /\ counts = Tally(0, 0, 0) =>
                Unwrap(last_result).answer = <<"answer", current_index, "lie_delay">>
          /\ counts = Tally(2, 2, 5) =>
                Unwrap(last_result).answer = <<"answer", current_index, "lie_freeze">>
          /\ counts = Tally(5, 3, 1) =>
                Unwrap(last_result).answer = <<"answer", current_index, "lie_delay">>
    /\ (response # None /\ Unwrap(response).op = "show") =>
          Unwrap(response).body.answer = Authored(current_index, TopPair(counts))

C1_Witness ==
    /\ response # None
    /\ Unwrap(response).op = "show"
    /\ counts = Tally(2, 2, 5)
    /\ current_index = NumSituations - 1
    /\ last_result = Some(Unwrap(response).body)

\* C2: each tally counter equals the number of accepted votes for its strategy
\* since the most recent clear (startup, advance or reset), and between two
\* clears no counter decreases.
ClearStep == \E p \in Procs : pc[p] \in {"next_counts", "reset_counts"} /\ pc'[p] # pc[p]

C2_TallyCountsAcceptedVotes ==
    /\ [](counts = accepted)
    /\ [][ClearStep \/ \A i \in 0..2 : counts'[i] >= counts[i]]_vars

C2_Witness ==
    /\ current_index > 0
    /\ counts[1] >= 1
    /\ counts[2] >= 1
    /\ counts = accepted

\* C3: every reveal increases version by exactly 1 and returns the new version;
\* a reveal that follows another with no vote, advance or reset between them
\* returns the same title, answer and counts and a strictly greater version.
C3_RevealBumpsVersion ==
    [][\A p \in Procs : Returns(p, "show") =>
          /\ result_version' = committed.result_version + 1
          /\ Sent.version = result_version'
          /\ since_show # None =>
                /\ Sent.situation_title = Unwrap(since_show).situation_title
                /\ Sent.answer = Unwrap(since_show).answer
                /\ Sent.counts = Unwrap(since_show).counts
                /\ Sent.version > Unwrap(since_show).version]_vars

C3_Witness ==
    \E p \in Procs :
        /\ pc[p] = "show_store"
        /\ since_show # None
        /\ result_version = Unwrap(since_show).version + 1
        /\ Sum(counts) > 0

\* C4: over every interleaving of the six operations version never decreases
\* and is never set back to 0; advance and reset leave it unchanged.
C4_VersionNeverDecreases ==
    [][/\ result_version' >= result_version
       /\ result_version > 0 => result_version' # 0
       /\ \A p \in Procs :
             /\ (Executes(p, "next") \/ Executes(p, "reset")) =>
                   result_version' = result_version
             /\ (Returns(p, "next") \/ Returns(p, "reset")) =>
                   result_version' = committed.result_version]_vars

C4_Witness ==
    /\ response # None
    /\ Unwrap(response).op = "reset"
    /\ result_version > 0
    /\ \E q \in Procs : req[q].op = "next"

\* C5: advance sets currentIndex to (currentIndex + 1) mod len(catalog), so
\* from the last index to 0, sets the tally to [0,0,0] and lastResult to
\* absent, and leaves version unchanged.
C5_AdvanceWraps ==
    [][\A p \in Procs : Returns(p, "next") =>
          /\ current_index' = (committed.current_index + 1) % NumSituations
          /\ committed.current_index = NumSituations - 1 => current_index' = 0
          /\ counts' = Zero
          /\ last_result' = None
          /\ result_version' = committed.result_version]_vars

C5_Witness ==
    \E p \in Procs :
        /\ pc[p] = "next_result"
        /\ committed.current_index = NumSituations - 1
        /\ current_index = 0
        /\ committed.counts # Zero
        /\ committed.last_result # None
        /\ counts = Zero

\* C6: resetRound sets the tally to [0,0,0] and lastResult to absent and
\* leaves currentIndex and version unchanged.
C6_ResetFrame ==
    [][\A p \in Procs : Returns(p, "reset") =>
          /\ counts' = Zero
          /\ last_result' = None
          /\ current_index' = committed.current_index
          /\ result_version' = committed.result_version]_vars

C6_Witness ==
    \E p \in Procs :
        /\ pc[p] = "reset_result"
        /\ committed.counts # Zero
        /\ committed.last_result # None
        /\ committed.current_index > 0
        /\ counts = Zero

\* C7: a vote whose token is not exactly "lie", "delay" or "freeze" (so "xyz",
\* and "Lie" as matching is case-sensitive) leaves the three counters and the
\* rest of the session state unchanged, and is acknowledged with ok = true
\* exactly as an accepted vote is.
C7_UnknownTokenIgnored ==
    [][\A p \in Procs : Returns(p, "click") =>
          /\ Sent = [ok |-> TRUE]
          /\ req[p].reaction \notin {"lie", "delay", "freeze"} =>
                /\ counts' = counts
                /\ current_index' = current_index
                /\ last_result' = last_result
                /\ result_version' = result_version]_vars

C7_Witness ==
    /\ response # None
    /\ Unwrap(response).op = "click"
    /\ Unwrap(response).reaction = "Lie"
    /\ Unwrap(response).body = [ok |-> TRUE]
    /\ Sum(counts) > 0
    /\ last_result # None


\* C8: a poll changes no state and returns absent exactly when no reveal has
\* happened since the most recent clear (startup, advance or reset), otherwise
\* the result of the most recent reveal; the round is Open until a reveal makes
\* it Revealed, votes, polls and further reveals keep it Revealed, and only
\* advance or reset return it to Open.
C8_PollReadsLastReveal ==
    [][/\ \A p \in Procs : Returns(p, "result") =>
             /\ Sent = shown_since_clear
             /\ current_index' = current_index
             /\ counts' = counts
             /\ last_result' = last_result
             /\ result_version' = result_version
       /\ (last_result = None /\ last_result' # None) => \E p \in Procs : Returns(p, "show")
       /\ \A p \in Procs : Returns(p, "show") => last_result' # None
       /\ \A p \in Procs :
             (Executes(p, "click") \/ Executes(p, "result") \/ Executes(p, "current")) =>
                last_result' = last_result
       /\ (last_result # None /\ last_result' = None) =>
             \E p \in Procs : Returns(p, "next") \/ Returns(p, "reset")
       /\ \A p \in Procs : (Returns(p, "next") \/ Returns(p, "reset")) =>
             last_result' = None]_vars

C8_Witness ==
    /\ response # None
    /\ Unwrap(response).op = "result"
    /\ Unwrap(response).body # None
    /\ Unwrap(Unwrap(response).body).counts # counts
    /\ current_index > 0

\* C9: a reveal that runs concurrently with votes, advances and resets returns
\* a result that is consistent: its counts are the tally as one whole operation
\* left it, its title is that of the situation current at that same instant,
\* and its answer is the one resolved from exactly those counts and situation.
C9_RevealIsAtomicSnapshot ==
    [][\A p \in Procs : Returns(p, "show") =>
          /\ Sent.counts = committed.counts
          /\ Sent.situation_title = <<"title", committed.current_index>>
          /\ Sent.answer = Authored(committed.current_index, TopPair(committed.counts))]_vars

C9_Witness ==
    /\ response # None
    /\ Unwrap(response).op = "show"
    /\ Unwrap(response).body.counts # Zero
    /\ current_index > 0
    /\ \E q \in Procs : pc[q] = "lock" /\ req[q].op \in {"click", "next", "reset"}

\* C10: two concurrent reveals are totally ordered: the one that takes the lock
\* second returns the version of the first plus 1 (no other reveal being
\* between them), and it is its result and version that are stored and that
\* later polls return until the next reveal, advance or reset.
C10_ConcurrentRevealsOrdered ==
    [][/\ \A p \in Procs : Returns(p, "show") =>
             /\ req[p].overtaken # 0 => Sent.version = req[p].overtaken + 1
             /\ last_result' = Some(Sent)
             /\ result_version' = Sent.version
       /\ \A p \in Procs : (Returns(p, "result") /\ shown_since_clear # None) =>
             /\ Sent = shown_since_clear
             /\ Unwrap(Sent).version = result_version]_vars

C10_Witness ==
    /\ response # None
    /\ Unwrap(response).op = "show"
    /\ Unwrap(response).overtaken # 0
    /\ Unwrap(response).body.version = Unwrap(response).overtaken + 1
    /\ last_result = Some(Unwrap(response).body)

\* C11: no accepted vote is lost or merged: every vote with a recognized token
\* raises its strategy's counter by exactly 1 over the value the previous whole
\* operation left, whatever votes and polls run concurrently, so k votes for
\* one strategy with no advance or reset among them raise it by exactly k;
\* polls leave the counters alone.
Recognized == {"lie", "delay", "freeze"}

C11_NoVoteLost ==
    /\ [](\A i \in 0..2 : counts[i] = accepted[i])
    /\ [][/\ \A p \in Procs : (Returns(p, "click") /\ req[p].reaction \in Recognized) =>
                LET i == TokenIndex(req[p].reaction)
                IN  /\ counts'[i] = counts[i] + 1
                    /\ counts'[i] = committed.counts[i] + 1
                    /\ accepted'[i] = accepted[i] + 1
          /\ \A p \in Procs : Executes(p, "result") => counts' = counts]_vars

C11_Witness ==
    /\ response # None
    /\ Unwrap(response).op = "click"
    /\ Unwrap(response).reaction = "lie"
    /\ counts[0] = 1
    /\ \E q \in Procs :
          /\ pc[q] = "lock"
          /\ req[q].op = "click"
          /\ req[q].reaction = "lie"

\* C12: for every situation of the built catalog each of the three unordered
\* pairs {Lie,Delay}, {Lie,Freeze}, {Delay,Freeze} resolves to its authored
\* answer and not to the sentinel text; so no reveal in any reachable state
\* stores or returns the sentinel.
C12_CatalogComplete ==
    /\ \A i \in DOMAIN situations : \A a, b \in Reactions :
          a # b =>
             /\ get_or_not_found(situations[i].answers, ordered_tuple(a, b)) # NotFound
             /\ get_or_not_found(situations[i].answers, ordered_tuple(a, b))
                   = Authored(i, {as_u8(a), as_u8(b)})
    /\ last_result # None => Unwrap(last_result).answer # NotFound
    /\ (response # None /\ Unwrap(response).op = "show") =>
          Unwrap(response).body.answer # NotFound

C12_Witness ==
    /\ response # None
    /\ Unwrap(response).op = "show"
    /\ current_index > 0
    /\ Unwrap(response).body.answer = <<"answer", current_index, "lie_freeze">>
    /\ last_result = Some(Unwrap(response).body)

\* C13: reveal changes only lastResult and version: the tally and currentIndex
\* are the same after it as before it, statement by statement and over the
\* whole call.
C13_RevealFrame ==
    [][\A p \in Procs :
          /\ Executes(p, "show") =>
                /\ counts' = counts
                /\ current_index' = current_index
          /\ Returns(p, "show") =>
                /\ counts' = committed.counts
                /\ current_index' = committed.current_index]_vars

C13_Witness ==
    /\ response # None
    /\ Unwrap(response).op = "show"
    /\ counts # Zero
    /\ counts = Unwrap(response).body.counts
    /\ current_index > 0
    /\ result_version = MaxShows

\* C14: when the current situation's answer mapping lacks the resolved pair,
\* reveal does not fail: it returns the sentinel text as the answer, still
\* increments version by 1 and still stores the result as lastResult.
AuthoredPairs(situation) == {{as_u8(k[1]), as_u8(k[2])} : k \in DOMAIN situation.answers}

PairMissing == TopPair(counts) \notin AuthoredPairs(situations[current_index])

C14_MissingPairFallsBack ==
    /\ [](\A p \in Procs : (pc[p] \in {"show_bump", "show_store"} /\ PairMissing) =>
             Unwrap(loc[p]).answer = NotFound)
    /\ [][\A p \in Procs : Returns(p, "show") =>
             /\ PairMissing => Sent.answer = NotFound
             /\ ~PairMissing => Sent.answer = Authored(current_index, TopPair(counts))
             /\ result_version' = committed.result_version + 1
             /\ Sent.version = result_version'
             /\ Sent.counts = counts
             /\ last_result' = Some(Sent)]_vars

C14_Witness ==
    /\ response # None
    /\ Unwrap(response).op = "show"
    /\ PairMissing
    /\ Unwrap(response).body.answer = NotFound
    /\ Unwrap(response).body.version = 2
    /\ last_result = Some(Unwrap(response).body)

\* C15: each field is changed only by its owning operations: an accepted vote
\* changes only the counter of its strategy; lastResult becomes present and
\* version changes only through reveal; currentIndex changes only through
\* advance; poll and read-current-situation change nothing.
C15_FieldsChangeOnlyByOwners ==
    [][/\ \A p \in Procs : (Returns(p, "click") /\ req[p].reaction \in Recognized) =>
             LET i == TokenIndex(req[p].reaction)
             IN  /\ counts'[i] # counts[i]
                 /\ \A j \in 0..2 : j # i => counts'[j] = counts[j]
                 /\ current_index' = current_index
                 /\ last_result' = last_result
                 /\ result_version' = result_version
       /\ (last_result' # last_result /\ last_result' # None) =>
             \E p \in Procs : Executes(p, "show")
       /\ result_version' # result_version => \E p \in Procs : Executes(p, "show")
       /\ current_index' # current_index => \E p \in Procs : Executes(p, "next")
       /\ \A p \in Procs : (Executes(p, "result") \/ Executes(p, "current")) =>
             /\ current_index' = current_index
             /\ counts' = counts
             /\ last_result' = last_result
             /\ result_version' = result_version]_vars

C15_Witness ==
    /\ response # None
    /\ Unwrap(response).op = "click"
    /\ Unwrap(response).reaction = "freeze"
    /\ counts[2] = 1
    /\ counts[1] = 1
    /\ last_result # None
    /\ current_index > 0

\* C16: a revealed result is a snapshot: votes leave the stored result
\* unchanged, a poll returns the result exactly as the last reveal built it
\* (shown_since_clear records what that reveal returned) and not the live
\* tally, and the stored result changes only when a reveal replaces it whole
\* or an advance/reset clears it.
C16_ResultIsSnapshot ==
    [][/\ \A p \in Procs : Executes(p, "click") => last_result' = last_result
       /\ \A p \in Procs : Returns(p, "result") =>
             /\ Sent = last_result
             /\ Sent = shown_since_clear
       /\ \A p \in Procs : Returns(p, "show") =>
             /\ last_result' = Some(Sent)
             /\ shown_since_clear' = Some(Sent)
       /\ last_result' # last_result =>
             \/ \E p \in Procs : Executes(p, "show") /\ last_result' # None
             \/ \E p \in Procs : (Executes(p, "next") \/ Executes(p, "reset"))
                                    /\ last_result' = None]_vars

C16_Witness ==
    /\ response # None
    /\ Unwrap(response).op = "result"
    /\ Unwrap(response).body # None
    /\ Unwrap(Unwrap(response).body).counts = Tally(1, 0, 0)
    /\ counts = Tally(1, 1, 0)
    /\ Unwrap(Unwrap(response).body).answer = <<"answer", current_index, "lie_delay">>
    /\ Unwrap(Unwrap(response).body).version = 1

\* C17: in every reachable state 0 <= current_index < len(situations), the
\* catalog being non-empty, so read-current-situation and reveal always find
\* a situation at current_index; read-current-situation returns the title and
\* the description of exactly that situation.
C17_IndexInCatalog ==
    /\ situations_len > 0
    /\ DOMAIN situations = 0..(situations_len - 1)
    /\ current_index \in DOMAIN situations
    /\ \A p \in Procs : pc[p] \in {"show_bump", "show_store"} =>
          Unwrap(loc[p]).situation_title = <<"title", current_index>>
    /\ (response # None /\ Unwrap(response).op = "current") =>
          /\ Unwrap(response).body.title = <<"title", current_index>>
          /\ Unwrap(response).body.description = <<"description", current_index>>

C17_Witness ==
    /\ response # None
    /\ Unwrap(response).op = "current"
    /\ current_index = NumSituations - 1
    /\ Unwrap(response).body.title = <<"title", NumSituations - 1>>
    /\ \E p \in Procs : pc[p] = "lock" /\ req[p].op = "next"

Results(p) ==
    IF Returns(p, "show") THEN {Sent}
    ELSE IF Returns(p, "result") /\ Sent # None THEN {Unwrap(Sent)}
    ELSE {}

\* C19: version identifies a reveal occurrence: any two results ever returned
\* by reveal or by poll that carry the same version are equal in every field
\* (each returned result equals the first one returned with its version), and
\* the versions of the non-absent results seen by successive polls never
\* decrease, including across advance and reset.
C19_VersionIdentifiesReveal ==
    [][\A p \in Procs :
          /\ \A r \in Results(p) :
                Unwrap(versions).issued[r.version] \in {None, Some(r)}
          /\ (Returns(p, "result") /\ Sent # None) =>
                Unwrap(Sent).version >= Unwrap(versions).polled]_vars

\* a poll after a second reveal in the next situation, a first reveal and a
\* poll of it having gone before
C19_Witness ==
    /\ response # None
    /\ Unwrap(response).op = "result"
    /\ Unwrap(response).body # None
    /\ Unwrap(Unwrap(response).body).version = 2
    /\ Unwrap(versions).issued[1] # None
    /\ Unwrap(versions).issued[2] = Unwrap(response).body
    /\ Unwrap(Unwrap(versions).issued[1]).situation_title = <<"title", 0>>
    /\ Unwrap(Unwrap(response).body).situation_title = <<"title", 1>>

\* C20: if last_result is present then its version equals result_version.
\* This holds in every state but one kind: inside admin_show, between the
\* bump of result_version and the store of the new result, an older result
\* still carries the previous version.  The task in that state holds the
\* mutex, so no handler ever reads such a state; whenever the mutex is free,
\* and in the state every whole operation leaves, the two versions agree.
C20_StoredVersionIsCurrent ==
    /\ (\A p \in Procs : pc[p] # "show_store") =>
          (last_result # None => Unwrap(last_result).version = result_version)
    /\ \A p \in Procs : (pc[p] = "show_store" /\ last_result # None) =>
          /\ mutex = p
          /\ Unwrap(last_result).version = result_version - 1
    /\ committed.last_result # None =>
          Unwrap(committed.last_result).version = committed.result_version

C20_Witness ==
    /\ mutex = 0
    /\ response = None
    /\ last_result # None
    /\ Unwrap(last_result).version = MaxShows
    /\ result_version = MaxShows
    /\ \E p \in Procs : pc[p] = "lock" /\ req[p].op = "result"
    /\ \E p \in Procs : pc[p] = "lock" /\ req[p].op = "reset"

\* C21: if last_result is present then its situation_title is the title of
\* the situation at current_index, and a poll never returns a result of a
\* situation other than the current one.  This holds in every state but one
\* kind: inside admin_next, after current_index is assigned and before
\* last_result is cleared, the stored result still names the situation just
\* left.  The task in that state holds the mutex, so no poll reads it.
C21_ResultOfCurrentSituation ==
    /\ (\A p \in Procs : pc[p] \notin {"next_counts", "next_result"}) =>
          (last_result # None =>
              Unwrap(last_result).situation_title = situations[current_index].title)
    /\ \A p \in Procs : pc[p] \in {"next_counts", "next_result"} => mutex = p
    /\ committed.last_result # None =>
          Unwrap(committed.last_result).situation_title =
              situations[committed.current_index].title
    /\ (response # None /\ Unwrap(response).op = "result"
            /\ Unwrap(response).body # None) =>
          Unwrap(Unwrap(response).body).situation_title = situations[current_index].title

C21_Witness ==
    /\ response # None
    /\ Unwrap(response).op = "result"
    /\ Unwrap(response).body # None
    /\ current_index = 2
    /\ Unwrap(Unwrap(response).body).situation_title = <<"title", 2>>
    /\ \E p \in Procs : pc[p] = "lock" /\ req[p].op = "next"

\* C22: if last_result is present then for each strategy i
\* last_result.counts[i] <= counts[i]: the revealed counts never exceed the
\* live tally of the same round.  This holds in every state but one kind:
\* inside admin_next and admin_reset, after counts is zeroed and before
\* last_result is cleared, the stored result still carries the counts of the
\* round just ended.  The task in that state holds the mutex.
C22_RevealedCountsBelowTally ==
    /\ (\A p \in Procs : pc[p] \notin {"next_result", "reset_result"}) =>
          (last_result # None =>
              \A i \in 0..2 : Unwrap(last_result).counts[i] <= counts[i])
    /\ \A p \in Procs : pc[p] \in {"next_result", "reset_result"} =>
          mutex = p /\ counts = Zero
    /\ committed.last_result # None =>
          \A i \in 0..2 : Unwrap(committed.last_result).counts[i] <= committed.counts[i]
    /\ (response # None /\ Unwrap(response).op = "result"
            /\ Unwrap(response).body # None) =>
          \A i \in 0..2 : Unwrap(Unwrap(response).body).counts[i] <= counts[i]

C22_Witness ==
    /\ mutex = 0
    /\ last_result # None
    /\ Unwrap(last_result).counts = Tally(0, 1, 0)
    /\ counts = Tally(0, 1, 1)
    /\ current_index = 1
    /\ \E p \in Procs : pc[p] = "lock" /\ req[p].op = "reset"

\* C23: starting from the initial state (current_index 0, counts [0,0,0],
\* last_result absent, result_version 0), result_version equals the number
\* of admin_show calls completed since startup, so the k-th reveal returns
\* version k and every revealed result has a version >= 1, regardless of
\* interleaved votes, advances and resets.  The counter runs one ahead only
\* inside admin_show, between the bump and the return, with the mutex held.
C23_VersionCountsReveals ==
    /\ [](/\ (\A p \in Procs : pc[p] # "show_store") => result_version = shows_completed
          /\ \A p \in Procs : pc[p] = "show_store" =>
                mutex = p /\ result_version = shows_completed + 1
          /\ committed.result_version = shows_completed
          /\ last_result # None => Unwrap(last_result).version >= 1)
    /\ [][\A p \in Procs :
            /\ Returns(p, "show") =>
                  /\ shows_completed' = shows_completed + 1
                  /\ Sent.version = shows_completed'
                  /\ Sent.version >= 1
            /\ (Returns(p, "result") /\ Sent # None) =>
                  /\ Unwrap(Sent).version >= 1
                  /\ Unwrap(Sent).version <= shows_completed]_vars

\* the second reveal has just returned version 2, after an advance and a
\* vote, while a reset waits for the lock
C23_Witness ==
    /\ response # None
    /\ Unwrap(response).op = "show"
    /\ Unwrap(response).body.version = 2
    /\ shows_completed = 2
    /\ current_index = 1
    /\ counts = Tally(0, 0, 1)
    /\ \E p \in Procs : pc[p] = "lock" /\ req[p].op = "reset"

====
